---------------------------- MODULE Spec2Model ----------------------------
(***************************************************************************)
(* A model of the index consistency and retrieval engine of kotaemon:      *)
(*   - BatchIndexerModule (libs/api/batch_indexer/batch_indexer_module.py) *)
(*       delete_file_from_index, index_single_file, index_folder           *)
(*   - DocumentRetrievalPipeline.run                                       *)
(*       (libs/ktem/ktem/index/file/document_retrieval_pipeline.py)        *)
(* over the three stores: the relational catalog (Source and Index rows),  *)
(* the vector store and the document store.                                *)
(***************************************************************************)
EXTENDS Integers, Sequences, FiniteSets, TLC

(***************************************************************************)
(* Bounds of the model.                                                    *)
(***************************************************************************)
\* Number of concurrent callers of the batch indexer.
NumProcs == 2
\* The longest list of ids given to delete_records_by_ids.
MaxIds == 2
\* The longest file_ids list a stream returns.
MaxFileIds == 2
\* A Source of the initial catalog has 0..MaxChunks relations of each type.
MaxChunks == 1
\* top_k of the retrieval pipeline: the most documents a retrieval returns.
TopK == 2
\* The most documents the retrieval of the extra tables returns.
MaxExtra == 2

Procs == 1..NumProcs

\* Python's None, and a value that is not None.
NONE == <<>>
Some(x) == <<x>>

\* File names and owners of the catalog; "" is the falsy user_id a caller may pass.
Names == {"a.pdf", "b.pdf"}
Users == {"u1", "u2"}
UserArgs == Users \cup {""}
\* The file a caller asks to delete.
FileArgs == {"a.pdf"}

VARIABLES
    \* ---- the three stores
    sources,      \* committed rows of the Source table: [id, name, user]
    relations,    \* committed rows of the Index table: [id, source_id, relation_type, target_id]
    vs,           \* ids of the live vector-store records
    ds,           \* ids of the live document-store records
    rels0,        \* the relations of the initial catalog (never changes)
    \* ---- delete_file_from_index, one call per caller
    dpc,          \* where each call stands
    dargs,        \* its arguments: [name, user]
    dsess,        \* its Session and locals: [source, flushed, delRel, vs_ids, ds_ids]
    dcalls,       \* the store calls it has issued: [vs, ds], each a sequence of id lists
    dres,         \* its return value
    \* ---- index_single_file, one call per caller
    apc,          \* where each call stands
    aargs,        \* its arguments: [name, user, reindex, chunks, index_name, index_id]
    apipe,        \* its indexing pipeline: [fid, old, vs_ids, ds_ids]
    ares,         \* its return value
    afault,       \* whether a store call of its pipeline has failed
    locks,        \* the (name, user) keys on which an indexing pipeline is serialized
    nextId,       \* the next id the catalog assigns to a Source
    acalls,       \* calls made one after another: the callers, in call order
    asnap,        \* calls made one after another: the stores as the latest call found them
    \* ---- index_folder, one call
    fpc,          \* where the call stands
    fargs,        \* its arguments: [index_name, index_id, reindex, user, callback, listing]
    ffiles,       \* files: the sorted list of the supported files of the folder
    fi,           \* the loop index i (line 187)
    fcounts,      \* [indexed, skipped, errors]: the three counters (lines 182-184)
    fresults,     \* results (line 185)
    fres,         \* the report it returns
    fexc,         \* the message of the exception it raises, if any
    flog,         \* what the loop has done so far: callback, call and result events
    \* ---- DocumentRetrievalPipeline.run, one call
    rpc,          \* where the call stands
    rargs,        \* its arguments and settings: [doc_ids, mmr, get_extra_table]
    rscope,       \* doc_ids after the flattening (line 92)
    rchunks,      \* chunk_ids (line 106)
    rdocs,        \* docs (line 130)
    rres,         \* the list it returns
    rexc,         \* the exception it raises, if any
    rqueries,     \* the catalog queries it has issued
    rretrievals,  \* the vector retrievals it has issued
    rextra,       \* extra_docs (line 155)
    rmeta,        \* the metadata the chunks of source 1 carry in the stores
    \* ---- DocumentRetrievalPipeline.generate_relevant_scores, one call
    spc,          \* where the call stands
    sargs,        \* its arguments and settings: [documents, llm_scorer]
    sres,         \* the list it returns
    sexc,         \* the exception it raises, if any
    \* ---- delete_records_by_ids (ktem_index_db.py), one call
    mtable,       \* committed rows of the ktem__index table: [id, name]
    mtable0,      \* the table before the call (never changes)
    mpc,          \* where the call stands
    margs,        \* its arguments: [ids, confirm]
    mids,         \* ids after the conversion (line 32)
    mexisting,    \* existing_records (line 42)
    mlisted,      \* the records whose listing has been printed (lines 48-50)
    mresponse,    \* response (line 54), if the operator was asked
    mout          \* the last message printed

storeVars == <<sources, relations, vs, ds, rels0>>
delVars == <<dpc, dargs, dsess, dcalls, dres>>
addVars == <<apc, aargs, apipe, ares, afault, locks, nextId, acalls, asnap>>
folderVars == <<fpc, fargs, ffiles, fi, fcounts, fresults, fres, fexc, flog>>
runVars == <<rpc, rargs, rscope, rchunks, rdocs, rres, rexc, rqueries,
            rretrievals, rextra, rmeta>>
\* What a step of delete_file_from_index, and of index_single_file, leaves alone.
scoreVars == <<spc, sargs, sres, sexc>>
maintVars == <<mtable, mtable0, mpc, margs, mids, mexisting, mlisted, mresponse, mout>>
nonDelVars == <<addVars, folderVars, runVars, scoreVars, maintVars>>
nonAddVars == <<delVars, folderVars, runVars, scoreVars, maintVars>>
vars == <<sources, relations, vs, ds, rels0, dpc, dargs, dsess, dcalls, dres,
          apc, aargs, apipe, ares, afault, locks, nextId, acalls, asnap,
          fpc, fargs, ffiles, fi, fcounts, fresults, fres, fexc, flog,
          rpc, rargs, rscope, rchunks, rdocs, rres, rexc, rqueries,
          rretrievals, rextra, rmeta, spc, sargs, sres, sexc,
          mtable, mtable0, mpc, margs, mids, mexisting, mlisted, mresponse, mout>>

(***************************************************************************)
(* The catalog.                                                            *)
(***************************************************************************)
RelationTypes == {"vector", "document"}

Source(id, name, user) == [id |-> id, name |-> name, user |-> user]

\* The k-th relation of type t of source sid.  Every chunk has a target id of
\* its own in the store of its type.
Relation(sid, t, k) ==
    [id |-> <<sid, t, k>>, source_id |-> sid, relation_type |-> t,
     target_id |-> <<t, sid, k>>]

\* Source tables the delete is tried on: two files of one user, the same file
\* name indexed twice by one user, and the same file name owned by two users.
SourceTables ==
    { {Source(1, "a.pdf", "u1"), Source(2, "b.pdf", "u1")},
      {Source(1, "a.pdf", "u1"), Source(2, "a.pdf", "u1")},
      {Source(1, "a.pdf", "u1"), Source(2, "a.pdf", "u2")} }

\* The relations of a source with nv vector relations and nd document relations.
RelationsOf(sid, nv, nd) ==
    {Relation(sid, "vector", k) : k \in 1..nv}
    \cup {Relation(sid, "document", k) : k \in 1..nd}

TargetsOf(rels, t) == {r.target_id : r \in {x \in rels : x.relation_type = t}}

(***************************************************************************)
(* delete_file_from_index                                                  *)
(***************************************************************************)
NoSession == [source |-> NONE, flushed |-> FALSE, delRel |-> {},
              vs_ids |-> {}, ds_ids |-> {}]
NoCalls == [vs |-> <<>>, ds |-> <<>>]
NoArgs == [name |-> "", user |-> ""]
NoResult == [success |-> FALSE, file_id |-> NONE, message |-> ""]

Result(success, file_id, message) ==
    [success |-> success, file_id |-> file_id, message |-> message]

\* The sequences that list every element of the finite set S once: the orders
\* in which a SELECT without ORDER BY may return its rows.
Orderings(S) ==
    {q \in [1..Cardinality(S) -> S] : \A i, j \in 1..Cardinality(S) : q[i] = q[j] => i = j}

\* select(Source).where(Source.user == user_id) when user_id is truthy, else
\* select(Source): the rows the statement returns, as a set.
SourceQuery(user) ==
    IF user # "" THEN {s \in sources : s.user = user} ELSE sources

\* for s in sources: if s[0].name == file_path.name: source = s[0]; break
RECURSIVE FirstMatch(_, _)
FirstMatch(rows, name) ==
    IF rows = <<>> THEN NONE
    ELSE IF Head(rows).name = name THEN Some(Head(rows))
    ELSE FirstMatch(Tail(rows), name)

\* str(e) of the exception the except clause catches: the operation that
\* raised it.
CatalogFailure == "Error deleting file: catalog"
VectorStoreFailure == "Error deleting file: vector store"
DocStoreFailure == "Error deleting file: document store"
Failures == {CatalogFailure, VectorStoreFailure, DocStoreFailure}

\* An except clause that logs the error and reports the deletion as done.
SwallowedFailure(cause) == Result(TRUE, NONE, cause)

\* Lines 357-360: {"success": False, "message": f"Error deleting file: {str(e)}"}
FailureResult(cause) == Result(FALSE, NONE, cause)

\* The except clause (lines 355-360): the Session is closed (an open
\* transaction is rolled back, which leaves the committed tables as they are)
\* and the error is returned.  The locals of the call are gone when it returns.
DeleteFails(p, cause) ==
    /\ dpc' = [dpc EXCEPT ![p] = "returned"]
    /\ dres' = [dres EXCEPT ![p] = FailureResult(cause)]
    /\ dsess' = [dsess EXCEPT ![p] = NoSession]
    /\ dargs' = [dargs EXCEPT ![p] = NoArgs]

\* A caller calls delete_file_from_index(file_path, user_id=user) (line 269).
DeleteCall(p) ==
    /\ dpc[p] = "idle"
    /\ \E name \in FileArgs, user \in UserArgs :
         dargs' = [dargs EXCEPT ![p] = [name |-> name, user |-> user]]
    /\ dpc' = [dpc EXCEPT ![p] = "called"]
    /\ UNCHANGED <<storeVars, dsess, dcalls, dres>>
    /\ UNCHANGED nonDelVars

\* Lines 294-316: the Source query and the search for the first row with the
\* file's name.
DeleteQuery(p) ==
    /\ dpc[p] = "called"
    /\ \/ \E rows \in Orderings(SourceQuery(dargs[p].user)) :
            LET source == FirstMatch(rows, dargs[p].name) IN
            IF source = NONE
            THEN /\ dpc' = [dpc EXCEPT ![p] = "returned"]
                 /\ dres' = [dres EXCEPT ![p] = Result(FALSE, NONE, "File not found in index")]
                 /\ dargs' = [dargs EXCEPT ![p] = NoArgs]
                 /\ UNCHANGED dsess
            ELSE /\ dpc' = [dpc EXCEPT ![p] = "found"]
                 /\ dsess' = [dsess EXCEPT ![p].source = source]
                 /\ UNCHANGED <<dres, dargs>>
       \/ DeleteFails(p, CatalogFailure)
    /\ UNCHANGED <<storeVars, dcalls>>
    /\ UNCHANGED nonDelVars

\* A flush that is committed on the spot (a Session in autocommit mode).
AutocommittedSources(p) == sources \ {dsess[p].source[1]}

\* The committed Source table after the autoflush that precedes the Index
\* query (line 326): the DELETE of session.delete(source) is issued inside the
\* open transaction, so the committed table is as before.
FlushedSources(p) == sources

\* The Index query without its where clause.
AllIndexRecords(file_id) == relations

\* The Index rows of the Source: select(Index).where(Index.source_id == file_id).
IndexRecords(file_id) == {r \in relations : r.source_id = file_id}

\* session.delete moved into the first branch of the loop: only the vector rows.
OnlyVectorRecords(index_records) ==
    {r \in index_records : r.relation_type = "vector"}

\* The rows the loop of lines 332-337 hands to session.delete.
DeletedRecords(index_records) == index_records

\* Lines 318-337: session.delete(source), the Index query of the source (which
\* flushes the pending DELETE), the partition of the target ids by
\* relation_type, and session.delete of every Index row found.
DeleteLoad(p) ==
    /\ dpc[p] = "found"
    /\ \/ LET index_records == IndexRecords(dsess[p].source[1].id) IN
          /\ sources' = FlushedSources(p)
          /\ dsess' = [dsess EXCEPT
                 ![p].flushed = TRUE,
                 ![p].vs_ids = TargetsOf(index_records, "vector"),
                 ![p].ds_ids = TargetsOf(index_records, "document"),
                 ![p].delRel = DeletedRecords(index_records)]
          /\ dpc' = [dpc EXCEPT ![p] = "loaded"]
          /\ UNCHANGED <<dres, dargs>>
       \/ DeleteFails(p, CatalogFailure) /\ UNCHANGED sources
    /\ UNCHANGED <<relations, vs, ds, rels0, dcalls>>
    /\ UNCHANGED nonDelVars

\* A commit that loses the DELETEs of the Index rows.
UncommittedRelations(p) == relations

\* Line 339, session.commit(): the DELETE of the Source row and of the Index
\* rows become visible together.
CommittedSources(p) == sources \ {dsess[p].source[1]}
CommittedRelations(p) == relations \ dsess[p].delRel

DeleteCommit(p) ==
    /\ dpc[p] = "loaded"
    /\ \/ /\ sources' = CommittedSources(p)
          /\ relations' = CommittedRelations(p)
          /\ dpc' = [dpc EXCEPT ![p] = "committed"]
          /\ UNCHANGED <<dres, dsess, dargs>>
       \/ DeleteFails(p, CatalogFailure) /\ UNCHANGED <<sources, relations>>
    /\ UNCHANGED <<vs, ds, rels0, dcalls>>
    /\ UNCHANGED nonDelVars

\* if vs_ids: (line 342)
CallsVectorStore(vs_ids) == vs_ids # {}
\* line 344 has no guard: index._docstore.delete(ds_ids) is always called.
CallsDocStore(ds_ids) == TRUE

\* Lines 342-343: index._vs.delete(vs_ids).  A failing call may have removed
\* any part of the ids before it raised.
DeleteVS(p) ==
    /\ dpc[p] = "committed"
    /\ IF CallsVectorStore(dsess[p].vs_ids)
       THEN /\ dcalls' = [dcalls EXCEPT ![p].vs = Append(@, dsess[p].vs_ids)]
            /\ \/ /\ vs' = vs \ dsess[p].vs_ids
                  /\ dpc' = [dpc EXCEPT ![p] = "vsdone"]
                  /\ UNCHANGED <<dres, dsess, dargs>>
               \/ /\ \E part \in SUBSET dsess[p].vs_ids : vs' = vs \ part
                  /\ DeleteFails(p, VectorStoreFailure)
       ELSE /\ dpc' = [dpc EXCEPT ![p] = "vsdone"]
            /\ UNCHANGED <<vs, dcalls, dres, dsess, dargs>>
    /\ UNCHANGED <<sources, relations, ds, rels0>>
    /\ UNCHANGED nonDelVars

\* Lines 346-353: the success result.
DeleteSucceeds(p) ==
    /\ dpc' = [dpc EXCEPT ![p] = "returned"]
    /\ dres' = [dres EXCEPT ![p] = Result(TRUE, Some(dsess[p].source[1].id), "deleted")]
    /\ dsess' = [dsess EXCEPT ![p] = NoSession]
    /\ dargs' = [dargs EXCEPT ![p] = NoArgs]

\* Lines 344-353: index._docstore.delete(ds_ids) and the success result.
DeleteDS(p) ==
    /\ dpc[p] = "vsdone"
    /\ IF CallsDocStore(dsess[p].ds_ids)
       THEN /\ dcalls' = [dcalls EXCEPT ![p].ds = Append(@, dsess[p].ds_ids)]
            /\ \/ /\ ds' = ds \ dsess[p].ds_ids
                  /\ DeleteSucceeds(p)
               \/ /\ \E part \in SUBSET dsess[p].ds_ids : ds' = ds \ part
                  /\ DeleteFails(p, DocStoreFailure)
       ELSE /\ DeleteSucceeds(p)
            /\ UNCHANGED <<ds, dcalls>>
    /\ UNCHANGED <<sources, relations, vs, rels0>>
    /\ UNCHANGED nonDelVars

\* The process running the call dies between two steps: the call never
\* returns, its locals are gone, and the database rolls back the transaction
\* it had open.
DeleteCrash(p) ==
    /\ dpc[p] \in {"called", "found", "loaded", "committed", "vsdone"}
    /\ dpc' = [dpc EXCEPT ![p] = "crashed"]
    /\ dargs' = [dargs EXCEPT ![p] = NoArgs]
    /\ dsess' = [dsess EXCEPT ![p] = NoSession]
    /\ dcalls' = [dcalls EXCEPT ![p] = NoCalls]
    /\ UNCHANGED <<storeVars, dres>>
    /\ UNCHANGED nonDelVars

(***************************************************************************)
(* A concurrent reader of the catalog.  Its statement (the Index query of  *)
(* DocumentRetrievalPipeline.run, lines 100-106) runs in a transaction of  *)
(* its own and returns committed rows: what a reader that asks for source  *)
(* sid observes at any moment is a function of the committed tables.       *)
(***************************************************************************)
SourceIds == {s.id : s \in UNION SourceTables}

Snapshot(sid) ==
    [source |-> {s \in sources : s.id = sid},
     rels |-> {r \in relations : r.source_id = sid}]

(***************************************************************************)
(* index_single_file                                                       *)
(***************************************************************************)
\* The indices of the index manager (self.index_manager.indices), in order.
Indices == <<[id |-> 1, name |-> "files"], [id |-> 2, name |-> "graph"]>>

\* Falsy values of index_name and index_id (None, "", 0).
NoName == ""
NoId == 0

\* get_index (lines 29-45): by name when a name is given, else by id when an
\* id is given, else None.
RECURSIVE FindIndex(_, _, _)
FindIndex(indices, key, value) ==
    IF indices = <<>> THEN NONE
    ELSE IF Head(indices)[key] = value THEN Some(Head(indices))
    ELSE FindIndex(Tail(indices), key, value)

get_index(index_name, index_id) ==
    IF index_name # NoName THEN FindIndex(Indices, "name", index_name)
    ELSE IF index_id # NoId THEN FindIndex(Indices, "id", index_id)
    ELSE NONE

\* What pipeline.stream(...) drained to its end gives index_single_file: it
\* raises ValueError (with or without "already indexed" in its message), it
\* raises another exception, or it returns; the value returned is None or
\* (file_ids, errors, docs), of which file_ids is kept here.
Raises(kind, already) ==
    [kind |-> kind, already |-> already, value |-> FALSE, file_ids |-> <<>>]
Returns(file_ids) ==
    [kind |-> "return", already |-> FALSE, value |-> TRUE, file_ids |-> file_ids]
ReturnsNothing ==
    [kind |-> "return", already |-> FALSE, value |-> FALSE, file_ids |-> <<>>]

AlreadyIndexed == Raises("ValueError", TRUE)
PipelineFailures ==
    {Raises("ValueError", FALSE), Raises("Exception", FALSE),
     Returns(<<NONE>>), Returns(<<>>), ReturnsNothing}

AddResult(success, file_id, status) ==
    [success |-> success, file_id |-> file_id, status |-> status]
NoAddResult == AddResult(FALSE, NONE, "")

\* The test on reindex inverted.
IsSkipInverted(outcome, reindex) ==
    outcome.kind = "ValueError" /\ outcome.already /\ reindex

\* Lines 93-103: the ValueError of the stream is a skip when its message
\* says "already indexed" and reindex is false.
IsSkip(outcome, reindex) ==
    outcome.kind = "ValueError" /\ outcome.already /\ ~reindex

\* Lines 85-138: the result index_single_file makes of the pipeline's outcome.
IndexSingleFileResult(outcome, reindex) ==
    IF outcome.kind = "ValueError" /\ IsSkip(outcome, reindex)
    THEN AddResult(TRUE, NONE, "skipped")
    ELSE IF outcome.kind # "return"
    THEN AddResult(FALSE, NONE, "error")
    ELSE IF outcome.value
    THEN IF outcome.file_ids # <<>> /\ outcome.file_ids[1] # NONE
         THEN AddResult(TRUE, outcome.file_ids[1], "indexed")
         ELSE AddResult(FALSE, NONE, "failed")
    ELSE AddResult(FALSE, NONE, "failed")

NoAddArgs == [name |-> "", user |-> "", reindex |-> FALSE, chunks |-> 0,
              index_name |-> NoName, index_id |-> NoId]
NoPipeline == [fid |-> 0, old |-> {}, vs_ids |-> {}, ds_ids |-> {}]

\* The index specifiers a caller passes, <<index_name, index_id>>: the index
\* by name, by id, none, and a name no index has.
IndexArgs ==
    {<<"files", NoId>>, <<NoName, 1>>, <<NoName, NoId>>, <<"nope", NoId>>}

\* The arguments of a call of index_single_file; chunks is the number of
\* chunks the content of the file is parsed into.
AddArgsOf(users, chunks, indexArgs) ==
    {[name |-> n, user |-> u, reindex |-> r, chunks |-> c,
      index_name |-> ix[1], index_id |-> ix[2]] :
        n \in FileArgs, u \in users, r \in BOOLEAN, c \in chunks,
        ix \in indexArgs}

\* Concurrent callers: two users, one-chunk files, the index named or not.
ConcurrentArgs == AddArgsOf(Users, {1}, {<<"files", NoId>>, <<NoName, NoId>>})
\* Calls made one after another: one user, the file with any content.
SequenceArgs == AddArgsOf({"u1"}, 1..MaxChunks, {<<"files", NoId>>})

Key(args) == <<args.name, args.user>>

\* A caller calls index_single_file (line 71).
AddCall(p) ==
    /\ apc[p] = "idle"
    /\ \E args \in ConcurrentArgs : aargs' = [aargs EXCEPT ![p] = args]
    /\ apc' = [apc EXCEPT ![p] = "called"]
    /\ UNCHANGED <<storeVars, apipe, ares, afault, locks, nextId, acalls, asnap>>
    /\ UNCHANGED nonAddVars

\* The same call made when no other call is running.
AddCallInSequence(p) ==
    /\ apc[p] = "idle"
    /\ \A q \in Procs : apc[q] \in {"idle", "returned", "raised"}
    /\ \E args \in SequenceArgs : aargs' = [aargs EXCEPT ![p] = args]
    /\ apc' = [apc EXCEPT ![p] = "called"]
    /\ acalls' = Append(acalls, p)
    /\ asnap' = Some(<<sources, relations, vs, ds>>)
    /\ UNCHANGED <<storeVars, apipe, ares, afault, locks, nextId>>
    /\ UNCHANGED nonAddVars

\* Lines 74-81: no index for the specifiers: ValueError, raised to the caller.
AddNoIndex(p) ==
    /\ apc[p] = "called"
    /\ get_index(aargs[p].index_name, aargs[p].index_id) = NONE
    /\ apc' = [apc EXCEPT ![p] = "raised"]
    /\ UNCHANGED <<storeVars, aargs, apipe, ares, afault, locks, nextId, acalls, asnap>>
    /\ UNCHANGED nonAddVars

\* index_single_file returns what it makes of the pipeline's outcome; the
\* pipeline gives up its serialization key.
AddReturns(p, outcome) ==
    /\ apc' = [apc EXCEPT ![p] = "returned"]
    /\ ares' = [ares EXCEPT ![p] = IndexSingleFileResult(outcome, aargs[p].reindex)]
    /\ apipe' = [apipe EXCEPT ![p] = NoPipeline]
    /\ locks' = locks \ {Key(aargs[p])}

\* A store call of the pipeline fails: the pipeline reports it, by raising or
\* in what it returns.
AddFails(p) ==
    /\ \E outcome \in PipelineFailures : AddReturns(p, outcome)
    /\ afault' = [afault EXCEPT ![p] = TRUE]

\* Everything the drained stream may do, as far as lines 85-138 tell one
\* behaviour from another: raise a ValueError or another exception, with or
\* without "already indexed" in its message, return nothing, or return
\* file_ids of any length whose elements are ids or None.
FileIdLists ==
    UNION {[1..n -> {NONE} \cup {Some(i) : i \in 1..2}] : n \in 0..MaxFileIds}
Outcomes ==
    {Raises(kind, already) : kind \in {"ValueError", "Exception"}, already \in BOOLEAN}
        \cup {ReturnsNothing}
        \cup {Returns(file_ids) : file_ids \in FileIdLists}

\* Lines 71-138 for an index that exists: a call of index_single_file whose
\* stream behaves in one of these ways, and the result the call returns.
AddOutcome(p) ==
    /\ apc[p] = "idle"
    /\ \E args \in ConcurrentArgs, outcome \in Outcomes :
         /\ get_index(args.index_name, args.index_id) # NONE
         /\ aargs' = [aargs EXCEPT ![p] = args]
         /\ ares' = [ares EXCEPT ![p] = IndexSingleFileResult(outcome, args.reindex)]
    /\ apc' = [apc EXCEPT ![p] = "returned"]
    /\ UNCHANGED <<storeVars, apipe, afault, locks, nextId, acalls, asnap>>
    /\ UNCHANGED nonAddVars

\* The Sources of the file: the match by (name, user) of the existence check.
Existing(args) == {s \in sources : s.name = args.name /\ s.user = args.user}

\* No serialization at all.
AlwaysMayCheck(p) == TRUE

\* Whether a pipeline may enter its existence check: indexing of one
\* (name, user) is serialized.
MayCheck(p) == Key(aargs[p]) \notin locks

\* The existence check of the pipeline: an existing Source without reindex
\* is "already indexed"; with reindex its footprint is removed first.
AddCheck(p) ==
    /\ apc[p] = "called"
    /\ get_index(aargs[p].index_name, aargs[p].index_id) # NONE
    /\ MayCheck(p)
    /\ \/ /\ Existing(aargs[p]) # {} /\ ~aargs[p].reindex
          /\ AddReturns(p, AlreadyIndexed)
          /\ UNCHANGED <<nextId, afault>>
       \/ /\ Existing(aargs[p]) # {} /\ aargs[p].reindex
          /\ apc' = [apc EXCEPT ![p] = "removing"]
          /\ apipe' = [apipe EXCEPT ![p].old = Existing(aargs[p])]
          /\ locks' = locks \cup {Key(aargs[p])}
          /\ UNCHANGED <<ares, nextId, afault>>
       \/ /\ Existing(aargs[p]) = {}
          /\ apc' = [apc EXCEPT ![p] = "writing"]
          /\ apipe' = [apipe EXCEPT ![p].fid = nextId]
          /\ nextId' = nextId + 1
          /\ locks' = locks \cup {Key(aargs[p])}
          /\ UNCHANGED <<ares, afault>>
       \/ AddFails(p) /\ UNCHANGED nextId
    /\ UNCHANGED <<storeVars, aargs, acalls, asnap>>
    /\ UNCHANGED nonAddVars

\* A reindex that removes the old Source row and leaves its Index rows.
NoOldRelations(old) == {}

\* Reindex, the deletion path: the old Source rows and their Index rows are
\* deleted in one catalog transaction, their target ids collected.
OldRelations(old) == {r \in relations : r.source_id \in {s.id : s \in old}}

AddRemoveCatalog(p) ==
    /\ apc[p] = "removing"
    /\ \/ /\ sources' = sources \ apipe[p].old
          /\ relations' = relations \ OldRelations(apipe[p].old)
          /\ apipe' = [apipe EXCEPT
                 ![p].vs_ids = TargetsOf(OldRelations(apipe[p].old), "vector"),
                 ![p].ds_ids = TargetsOf(OldRelations(apipe[p].old), "document")]
          /\ apc' = [apc EXCEPT ![p] = "cleaning"]
          /\ UNCHANGED <<ares, afault, locks>>
       \/ AddFails(p) /\ UNCHANGED <<sources, relations>>
    /\ UNCHANGED <<vs, ds, rels0, aargs, nextId, acalls, asnap>>
    /\ UNCHANGED nonAddVars

\* Reindex, the deletion path: after the commit the store records of the old
\* footprint are deleted; only then does the writing begin.
AddRemoveStores(p) ==
    /\ apc[p] = "cleaning"
    /\ \/ /\ vs' = vs \ apipe[p].vs_ids
          /\ ds' = ds \ apipe[p].ds_ids
          /\ apc' = [apc EXCEPT ![p] = "writing"]
          /\ apipe' = [apipe EXCEPT ![p].fid = nextId, ![p].old = {},
                                    ![p].vs_ids = {}, ![p].ds_ids = {}]
          /\ nextId' = nextId + 1
          /\ UNCHANGED <<ares, afault, locks>>
       \/ /\ \/ \E part \in SUBSET apipe[p].vs_ids :
                   vs' = vs \ part /\ ds' = ds
             \/ \E part \in SUBSET apipe[p].ds_ids :
                   vs' = vs \ apipe[p].vs_ids /\ ds' = ds \ part
          /\ AddFails(p)
          /\ UNCHANGED nextId
    /\ UNCHANGED <<sources, relations, rels0, aargs, acalls, asnap>>
    /\ UNCHANGED nonAddVars

\* The chunks of the file as the pipeline writes them: one document record
\* and one vector record per chunk, under ids of their own.
NewRelations(p) == RelationsOf(apipe[p].fid, aargs[p].chunks, aargs[p].chunks)

\* The chunk payloads are written to the document store and the vector store.
AddWriteChunks(p) ==
    /\ apc[p] = "writing"
    /\ \/ /\ vs' = vs \cup TargetsOf(NewRelations(p), "vector")
          /\ ds' = ds \cup TargetsOf(NewRelations(p), "document")
          /\ apc' = [apc EXCEPT ![p] = "chunked"]
          /\ UNCHANGED <<apipe, ares, afault, locks>>
       \/ AddFails(p) /\ UNCHANGED <<vs, ds>>
    /\ UNCHANGED <<sources, relations, rels0, aargs, nextId, acalls, asnap>>
    /\ UNCHANGED nonAddVars

\* Then the Index rows that point at them.
AddWriteRelations(p) ==
    /\ apc[p] = "chunked"
    /\ \/ /\ relations' = relations \cup NewRelations(p)
          /\ apc' = [apc EXCEPT ![p] = "related"]
          /\ UNCHANGED <<apipe, ares, afault, locks>>
       \/ AddFails(p) /\ UNCHANGED relations
    /\ UNCHANGED <<sources, vs, ds, rels0, aargs, nextId, acalls, asnap>>
    /\ UNCHANGED nonAddVars

\* Then the Source row; the stream returns the file id.
AddWriteSource(p) ==
    /\ apc[p] = "related"
    /\ \/ /\ sources' = sources \cup {Source(apipe[p].fid, aargs[p].name, aargs[p].user)}
          /\ AddReturns(p, Returns(<<Some(apipe[p].fid)>>))
          /\ UNCHANGED afault
       \/ AddFails(p) /\ UNCHANGED sources
    /\ UNCHANGED <<relations, vs, ds, rels0, aargs, nextId, acalls, asnap>>
    /\ UNCHANGED nonAddVars

(***************************************************************************)
(* index_folder (lines 140-217).  The call runs in the thread of its        *)
(* caller, and so does each index_single_file it calls.                    *)
(***************************************************************************)
FolderCaller == 1

\* A file suffix, character by character.
Pdf == <<".", "p", "d", "f">>
Txt == <<".", "t", "x", "t">>
Png == <<".", "p", "n", "g">>

\* The entries a folder may hold, in ascending path order, with their suffixes.
FolderEntries == <<"a.pdf", "b.pdf", "c.txt", "d.png">>
Suffix(f) ==
    CASE f \in {"a.pdf", "b.pdf"} -> Pdf
      [] f = "c.txt" -> Txt
      [] OTHER -> Png

\* Lines 47-51: the default "supported_file_types" of an index, split.
get_supported_extensions == {Pdf, Txt}

\* Python's `s in t` of two strings.
IsInfix(s, t) ==
    \E k \in 0..(Len(t) - Len(s)) : SubSeq(t, k + 1, k + Len(s)) = s

\* Line 66: a file is taken when its suffix is within a supported extension.
IsSupported(f) == \E ext \in get_supported_extensions : IsInfix(Suffix(f), ext)

\* The order of paths: the position in FolderEntries.
PathRank(f) == CHOOSE k \in 1..Len(FolderEntries) : FolderEntries[k] = f

\* Line 69: sorted(files).
RECURSIVE SortedPaths(_)
SortedPaths(S) ==
    IF S = {} THEN <<>>
    ELSE LET least == CHOOSE f \in S : \A g \in S : PathRank(f) <= PathRank(g)
         IN <<least>> \o SortedPaths(S \ {least})

\* The files appended as the listing yields them, without the sorted() of
\* line 69.
ListingOrder(listing) == SelectSeq(listing, IsSupported)

\* Lines 53-69: the supported files of a folder, sorted, whatever the order
\* in which the listing yields them.
get_files_to_index(listing) ==
    SortedPaths({listing[k] : k \in {j \in 1..Len(listing) : IsSupported(listing[j])}})

\* What folder_path may be: missing, a plain file, or a directory whose
\* listing yields some entries in some order.
Folders ==
    {[kind |-> "missing", listing |-> <<>>], [kind |-> "file", listing |-> <<>>]}
        \cup {[kind |-> "dir", listing |-> l] :
                  l \in UNION {Orderings(S) :
                      S \in SUBSET {FolderEntries[k] : k \in 1..Len(FolderEntries)}}}

\* progress_callback: none given, one that returns, one that raises.
Callbacks == {"none", "returns", "raises"}

NoExc == ""
NoFolderArgs == [index_name |-> NoName, index_id |-> NoId, reindex |-> FALSE,
                 user |-> "", callback |-> "none", listing |-> <<>>]
NoCounts == [indexed |-> 0, skipped |-> 0, errors |-> 0]
Report(success, indexed, skipped, errors, total_files, results) ==
    [success |-> success, indexed |-> indexed, skipped |-> skipped,
     errors |-> errors, total_files |-> total_files, results |-> results]
NoReport == Report(FALSE, 0, 0, 0, 0, <<>>)

\* Lines 74-81 and 159-163: the ValueError for specifiers that name no index.
NoIndexError(index_name, index_id) ==
    IF index_name # NoName THEN "Index with name not found"
    ELSE IF index_id # NoId THEN "Index with ID not found"
    ELSE "No index specified"

\* Lines 158-168: the exception index_folder raises instead of choosing an
\* index, if any: with no specifier it takes the first index there is.
FolderIndexError(index_name, index_id) ==
    IF get_index(index_name, index_id) # NONE THEN NoExc
    ELSE IF index_name # NoName \/ index_id # NoId
    THEN NoIndexError(index_name, index_id)
    ELSE IF Indices = <<>> THEN "No indices available"
    ELSE NoExc

\* Lines 57-61: the exception of get_files_to_index, if any.
FolderPathError(folder) ==
    IF folder.kind = "missing" THEN "Folder does not exist"
    ELSE IF folder.kind = "file" THEN "Not a directory"
    ELSE NoExc

FolderRaises(message) ==
    /\ fpc' = "raised"
    /\ fexc' = message

\* The folders whose listing yields the entries in ascending path order.
SortedFolders ==
    {folder \in Folders :
        \A j, k \in 1..Len(folder.listing) :
            j < k => PathRank(folder.listing[j]) < PathRank(folder.listing[k])}

\* Lines 140-185: the call up to its loop: the index, the files, the counters.
\* The caller's index specifiers, callback and folder are drawn from the sets
\* given.
FolderCallOn(indexArgs, callbacks, folders) ==
    /\ fpc = "idle"
    /\ \E ix \in indexArgs, r \in BOOLEAN, cb \in callbacks, folder \in folders :
           /\ fargs' = [index_name |-> ix[1], index_id |-> ix[2], reindex |-> r,
                        user |-> "u1", callback |-> cb, listing |-> folder.listing]
           /\ IF FolderIndexError(ix[1], ix[2]) # NoExc
              THEN FolderRaises(FolderIndexError(ix[1], ix[2])) /\ UNCHANGED ffiles
              ELSE IF FolderPathError(folder) # NoExc
              THEN FolderRaises(FolderPathError(folder)) /\ UNCHANGED ffiles
              ELSE /\ ffiles' = get_files_to_index(folder.listing)
                   /\ fpc' = "loop"
                   /\ UNCHANGED fexc
    /\ fi' = 1
    /\ fcounts' = NoCounts
    /\ fresults' = <<>>
    /\ flog' = <<>>
    /\ UNCHANGED <<fres, storeVars, delVars, addVars, runVars, scoreVars, maintVars>>

\* A call with any index specifiers and callback, on a folder listed in order.
FolderCall == FolderCallOn(IndexArgs, Callbacks, SortedFolders)

\* A call that names the index and gives no callback, on a folder listed in
\* any order.
FolderCallListed == FolderCallOn({<<"files", NoId>>}, {"none"}, Folders)

\* What the loop does, as an observer sees it: the callback is invoked, the
\* file is handed to index_single_file, its result is appended to results.
Event(kind, i, total, file) == [kind |-> kind, i |-> i, total |-> total, file |-> file]
Called(i, files) == Event("call", i, Len(files), files[i])
Recorded(i, files) == Event("result", i, Len(files), files[i])

\* enumerate(files) without its start: the callback is told i - 1.
ProgressFromZero(i, files) == Event("callback", i - 1, Len(files), files[i])

\* Lines 187-189: progress_callback(i, len(files), str(file_path)), with i
\* counted from 1.
Progress(i, files) == Event("callback", i, Len(files), files[i])

\* Lines 187-197: the callback is told of the next file, and the file is
\* handed to index_single_file with the specifiers as the caller gave them.
FolderIndexFile ==
    /\ fpc = "loop"
    /\ fi <= Len(ffiles)
    /\ IF fargs.callback = "raises"
       THEN /\ FolderRaises("callback failed")
            /\ flog' = Append(flog, Progress(fi, ffiles))
            /\ UNCHANGED <<apc, aargs, afault>>
       ELSE /\ fpc' = "indexing"
            /\ flog' = IF fargs.callback = "none"
                       THEN Append(flog, Called(fi, ffiles))
                       ELSE flog \o <<Progress(fi, ffiles), Called(fi, ffiles)>>
            /\ aargs' = [aargs EXCEPT ![FolderCaller] =
                   [name |-> ffiles[fi], user |-> fargs.user,
                    reindex |-> fargs.reindex, chunks |-> 1,
                    index_name |-> fargs.index_name, index_id |-> fargs.index_id]]
            /\ apc' = [apc EXCEPT ![FolderCaller] = "called"]
            /\ afault' = [afault EXCEPT ![FolderCaller] = FALSE]
            /\ UNCHANGED fexc
    /\ UNCHANGED <<fargs, ffiles, fi, fcounts, fresults, fres>>
    /\ UNCHANGED <<apipe, ares, locks, nextId, acalls, asnap>>
    /\ UNCHANGED <<storeVars, delVars, runVars, scoreVars, maintVars>>

\* A status that is neither indexed nor skipped counts as nothing.
CountsNoErrors(counts, status) ==
    IF status = "indexed" THEN [counts EXCEPT !.indexed = @ + 1]
    ELSE IF status = "skipped" THEN [counts EXCEPT !.skipped = @ + 1]
    ELSE counts

\* Lines 203-208: the counter a status adds to.
Counted(counts, status) ==
    IF status = "indexed" THEN [counts EXCEPT !.indexed = @ + 1]
    ELSE IF status = "skipped" THEN [counts EXCEPT !.skipped = @ + 1]
    ELSE [counts EXCEPT !.errors = @ + 1]

\* Lines 199-200: the entry of a file in results.
Entry(result, file) ==
    [success |-> result.success, file_id |-> result.file_id,
     status |-> result.status, file_name |-> file]

\* Lines 191-208: index_single_file has returned: its result is appended
\* and counted, and the loop goes on to the next file.
FolderCollect ==
    /\ fpc = "indexing"
    /\ apc[FolderCaller] = "returned"
    /\ fresults' = Append(fresults, Entry(ares[FolderCaller], ffiles[fi]))
    /\ flog' = Append(flog, Recorded(fi, ffiles))
    /\ fcounts' = Counted(fcounts, ares[FolderCaller].status)
    /\ fi' = fi + 1
    /\ fpc' = "loop"
    /\ apc' = [apc EXCEPT ![FolderCaller] = "idle"]
    /\ aargs' = [aargs EXCEPT ![FolderCaller] = NoAddArgs]
    /\ ares' = [ares EXCEPT ![FolderCaller] = NoAddResult]
    /\ UNCHANGED <<fargs, ffiles, fres, fexc>>
    /\ UNCHANGED <<apipe, afault, locks, nextId, acalls, asnap>>
    /\ UNCHANGED <<storeVars, delVars, runVars, scoreVars, maintVars>>

\* Lines 191-197: index_single_file has raised (lines 74-81 are outside its
\* try): nothing in index_folder catches it.
FolderPropagate ==
    /\ fpc = "indexing"
    /\ apc[FolderCaller] = "raised"
    /\ FolderRaises(NoIndexError(fargs.index_name, fargs.index_id))
    /\ apc' = [apc EXCEPT ![FolderCaller] = "idle"]
    /\ aargs' = [aargs EXCEPT ![FolderCaller] = NoAddArgs]
    /\ UNCHANGED <<fargs, ffiles, fi, fcounts, fresults, fres, flog>>
    /\ UNCHANGED <<apipe, ares, afault, locks, nextId, acalls, asnap>>
    /\ UNCHANGED <<storeVars, delVars, runVars, scoreVars, maintVars>>

\* Lines 210-217: the loop is over: the report.
FolderReturn ==
    /\ fpc = "loop"
    /\ fi > Len(ffiles)
    /\ fres' = Report(fcounts.errors = 0, fcounts.indexed, fcounts.skipped,
                      fcounts.errors, Len(ffiles), fresults)
    /\ fpc' = "returned"
    /\ UNCHANGED <<fargs, ffiles, fi, fcounts, fresults, fexc, flog>>
    /\ UNCHANGED <<storeVars, delVars, addVars, runVars, scoreVars, maintVars>>

(***************************************************************************)
(* DocumentRetrievalPipeline.run (document_retrieval_pipeline.py, lines    *)
(* 68-166).                                                                *)
(***************************************************************************)
\* An element of doc_ids: None, or a string, which is a sequence of tokens.
\* The tokens are "[", ",", "]", "null", an id within quotes ("1", "2",
\* "9"), and a bare word ("x").
None == [isNone |-> TRUE, text |-> <<>>]
Str(text) == [isNone |-> FALSE, text |-> text]
IdTokens == {"1", "2", "9"}

\* The doc_ids a caller passes: absent, or a list.
ScopeArgs ==
    {NONE} \cup {Some(l) : l \in
        { <<>>,
          <<Str(<<"[", "]">>)>>,
          <<Str(<<"[", "]">>), Str(<<"[", "]">>)>>,
          <<Str(<<"1">>)>>,
          <<Str(<<"2">>), Str(<<"1">>)>>,
          <<Str(<<"[", "2", ",", "1", "]">>)>>,
          <<Str(<<"[", "1", "]">>), Str(<<"2">>)>>,
          <<Str(<<"9">>)>>,
          <<Str(<<>>)>>,
          <<None>>,
          <<Str(<<"1">>), None>>,
          <<Str(<<"[", "x", "]">>), None>>,
          <<Str(<<"[", "null", "]">>)>>,
          <<Str(<<"[", "1", ",", "null", "]">>)>>,
          <<Str(<<"[", "x", "]">>)>>,
          <<Str(<<"[", "1">>)>> }}

\* json.loads of a text: a flat list of quoted ids and nulls, or an error.
JsonError == [error |-> TRUE, items |-> <<>>]
\* A decoding that yields the items of the list last to first.
JsonListReversed(items) ==
    [error |-> FALSE, items |-> [k \in 1..Len(items) |-> items[Len(items) + 1 - k]]]

JsonList(items) == [error |-> FALSE, items |-> items]
JsonValue(token) == IF token = "null" THEN None ELSE Str(<<token>>)
IsJsonValue(token) == token \in IdTokens \cup {"null"}

\* What follows a value of the list: "]", or "," and the next value.
RECURSIVE JsonRest(_, _)
JsonRest(tokens, items) ==
    IF tokens = <<"]">> THEN JsonList(items)
    ELSE IF Len(tokens) >= 2 /\ tokens[1] = "," /\ IsJsonValue(tokens[2])
    THEN JsonRest(SubSeq(tokens, 3, Len(tokens)), Append(items, JsonValue(tokens[2])))
    ELSE JsonError

json_loads(text) ==
    IF Len(text) < 2 \/ text[1] # "[" THEN JsonError
    ELSE IF Tail(text) = <<"]">> THEN JsonList(<<>>)
    ELSE IF IsJsonValue(text[2])
    THEN JsonRest(SubSeq(text, 3, Len(text)), <<JsonValue(text[2])>>)
    ELSE JsonError

\* A flattening that goes on past what it should raise.
FlatSwallowed(exc, ids) == [exc |-> NoExc, ids |-> ids]

\* The outcome of the flattening: the exception it raises, if any, and the
\* flattened list.
Flat(exc, ids) == [exc |-> exc, ids |-> ids]

\* Lines 83-92: the loop that flattens doc_ids.
RECURSIVE Flatten(_, _)
Flatten(doc_ids, flatten_doc_ids) ==
    IF doc_ids = <<>> THEN Flat(NoExc, flatten_doc_ids)
    ELSE LET doc_id == Head(doc_ids)
         IN IF doc_id.isNone THEN Flat("ValueError", <<>>)
            ELSE IF doc_id.text # <<>> /\ doc_id.text[1] = "["
            THEN IF json_loads(doc_id.text).error
                 THEN Flat("JSONDecodeError", <<>>)
                 ELSE Flatten(Tail(doc_ids),
                              flatten_doc_ids \o json_loads(doc_id.text).items)
            ELSE Flatten(Tail(doc_ids), Append(flatten_doc_ids, doc_id))

\* A scope that is always taken as non-empty.
NeverEmpty(doc_ids) == FALSE

\* Line 95: `not doc_ids`.
IsEmptyScope(doc_ids) == doc_ids = <<>>

\* The id of a Source as the string a caller passes.
DocId(sid) == Str(<<ToString(sid)>>)

\* Lines 101-106: the targets of the document-type Index rows whose
\* source_id is in doc_ids.
ChunkIds(doc_ids) ==
    {r.target_id : r \in {x \in relations :
        /\ x.relation_type = "document"
        /\ \E k \in 1..Len(doc_ids) : doc_ids[k] = DocId(x.source_id)}}

\* The metadata of a chunk in the stores: none of the two keys, page_label
\* only, or page_label and file_name.
NoMeta == "none"
PageOnly == "page_label"
FullMeta == "page_label, file_name"
MetaKinds == {NoMeta, PageOnly, FullMeta}
Meta(doc) == IF doc[2] = 1 THEN rmeta ELSE FullMeta
FileName(doc) == (CHOOSE s \in sources : s.id = doc[2]).name

NoRunArgs == [doc_ids |-> NONE, mmr |-> FALSE, get_extra_table |-> FALSE]

\* A retrieval call: the base retrieval (line 130) and the one for the extra
\* tables (lines 155-159).
BaseRetrieval(scope, doc_ids, mmr) ==
    [text |-> "text", top_k |-> TopK, scope |-> scope, filters |-> doc_ids,
     mmr |-> mmr, where |-> {}]
ExtraRetrieval(file_names) ==
    [text |-> "", top_k |-> 50, scope |-> {}, filters |-> <<>>,
     mmr |-> FALSE, where |-> file_names]

RunRaises(exc) ==
    /\ rpc' = "raised"
    /\ rexc' = exc

RunReturns(docs) ==
    /\ rpc' = "returned"
    /\ rres' = docs

\* Lines 68-97: the call: doc_ids is flattened, and an empty scope returns
\* an empty list at once.
RunCall ==
    /\ rpc = "idle"
    /\ \E doc_ids \in ScopeArgs, mmr \in BOOLEAN, get_extra_table \in BOOLEAN :
           LET flat == IF doc_ids # NONE /\ doc_ids[1] # <<>>
                       THEN Flatten(doc_ids[1], <<>>)
                       ELSE Flat(NoExc, <<>>)
           IN /\ rargs' = [doc_ids |-> doc_ids, mmr |-> mmr,
                           get_extra_table |-> get_extra_table]
              /\ IF flat.exc # NoExc
                 THEN RunRaises(flat.exc) /\ UNCHANGED <<rscope, rres>>
                 ELSE IF IsEmptyScope(flat.ids)
                 THEN RunReturns(<<>>) /\ UNCHANGED <<rscope, rexc>>
                 ELSE /\ rpc' = "scoped"
                      /\ rscope' = flat.ids
                      /\ UNCHANGED <<rres, rexc>>
    /\ UNCHANGED <<rchunks, rdocs, rqueries, rretrievals, rextra, rmeta>>
    /\ UNCHANGED <<storeVars, delVars, addVars, folderVars, scoreVars, maintVars>>

\* Lines 100-106: the catalog query for the chunks of the scope.
RunQuery ==
    /\ rpc = "scoped"
    /\ rqueries' = Append(rqueries, rscope)
    /\ \/ /\ rchunks' = ChunkIds(rscope)
          /\ rpc' = "queried"
          /\ UNCHANGED rexc
       \/ /\ RunRaises("OperationalError")
          /\ UNCHANGED rchunks
    /\ UNCHANGED <<rargs, rscope, rdocs, rres, rretrievals, rextra, rmeta>>
    /\ UNCHANGED <<storeVars, delVars, addVars, folderVars, scoreVars, maintVars>>

\* What a retrieval over the records S may return: a list of at most n of
\* them, in which a record may come more than once.
Retrieved(S, n) == UNION {[1..k -> S] : k \in 0..n}

\* Lines 109-134: the retrieval within the scope; the vector store honours
\* the scope it is given.  Without get_extra_table its result is returned.
RunRetrieve ==
    /\ rpc = "queried"
    /\ rretrievals' = Append(rretrievals, BaseRetrieval(rchunks, rscope, rargs.mmr))
    /\ \/ \E docs \in Retrieved(rchunks \cap ds, TopK) :
              /\ rdocs' = docs
              /\ IF rargs.get_extra_table
                 THEN rpc' = "retrieved" /\ UNCHANGED rres
                 ELSE RunReturns(docs)
              /\ UNCHANGED rexc
       \/ /\ RunRaises("RetrievalError")
          /\ UNCHANGED <<rdocs, rres>>
    /\ UNCHANGED <<rargs, rscope, rchunks, rqueries, rextra, rmeta>>
    /\ UNCHANGED <<storeVars, delVars, addVars, folderVars, scoreVars, maintVars>>

\* Lines 137-152: the file names of the pages the retrieved documents are on.
TablePages(docs) ==
    {FileName(docs[k]) : k \in {j \in 1..Len(docs) : Meta(docs[j]) # NoMeta}}

\* A merge without the test of line 161.
AppendAll(docs, extra_docs, retrieved_id) == docs \o extra_docs

\* Lines 160-162: the extra documents not yet retrieved are appended.
RECURSIVE AppendNew(_, _, _)
AppendNew(docs, extra_docs, retrieved_id) ==
    IF extra_docs = <<>> THEN docs
    ELSE IF Head(extra_docs) \notin retrieved_id
    THEN AppendNew(Append(docs, Head(extra_docs)), Tail(extra_docs), retrieved_id)
    ELSE AppendNew(docs, Tail(extra_docs), retrieved_id)

\* Lines 136-166: the augmentation with the tables of the retrieved pages.
\* A document with page_label and without file_name raises KeyError (line
\* 147); a failure of the extra retrieval is swallowed (lines 163-164).
RunAugment ==
    /\ rpc = "retrieved"
    /\ LET retrieved_id == {rdocs[k] : k \in 1..Len(rdocs)}
           file_names == TablePages(rdocs)
           candidates == {d \in ds : Meta(d) = FullMeta /\ FileName(d) \in file_names}
       IN IF \E k \in 1..Len(rdocs) : Meta(rdocs[k]) = PageOnly
          THEN RunRaises("KeyError") /\ UNCHANGED <<rres, rretrievals, rextra>>
          ELSE IF file_names = {}
          THEN RunReturns(rdocs) /\ UNCHANGED <<rexc, rretrievals, rextra>>
          ELSE /\ rretrievals' = Append(rretrievals, ExtraRetrieval(file_names))
               /\ \/ \E extra_docs \in Retrieved(candidates, MaxExtra) :
                         /\ rextra' = extra_docs
                         /\ RunReturns(AppendNew(rdocs, extra_docs, retrieved_id))
                  \/ RunReturns(rdocs) /\ UNCHANGED rextra
               /\ UNCHANGED rexc
    /\ UNCHANGED <<rargs, rscope, rchunks, rdocs, rqueries, rmeta>>
    /\ UNCHANGED <<storeVars, delVars, addVars, folderVars, scoreVars, maintVars>>

(***************************************************************************)
(* DocumentRetrievalPipeline.generate_relevant_scores (lines 168-176).     *)
(***************************************************************************)
NoScoreArgs == [documents |-> <<>>, llm_scorer |-> FALSE]

\* What the scorer may return of the documents: any of them, in their order.
Sublists(documents) ==
    {[k \in 1..Len(SelectSeq([j \in 1..Len(documents) |-> j],
                             LAMBDA j : j \in keep)) |->
         documents[SelectSeq([j \in 1..Len(documents) |-> j],
                             LAMBDA j : j \in keep)[k]]] :
        keep \in SUBSET (1..Len(documents))}

\* Lines 168-176: the documents as they are when no scorer is set, else what
\* the scorer returns of them; nothing catches an exception of the scorer.
generate_relevant_scores ==
    /\ spc = "idle"
    /\ \E documents \in Retrieved(ds, TopK), llm_scorer \in BOOLEAN :
           /\ sargs' = [documents |-> documents, llm_scorer |-> llm_scorer]
           /\ IF ~llm_scorer
              THEN spc' = "returned" /\ sres' = documents /\ UNCHANGED sexc
              ELSE \/ \E docs \in Sublists(documents) :
                          spc' = "returned" /\ sres' = docs /\ UNCHANGED sexc
                   \/ spc' = "raised" /\ sexc' = "ScorerError" /\ UNCHANGED sres
    /\ UNCHANGED <<storeVars, delVars, addVars, folderVars, runVars, maintVars>>

(***************************************************************************)
(* delete_records_by_ids (ktem_index_db.py, lines 23-73): the maintenance  *)
(* script that deletes rows of the ktem__index table by id.                *)
(***************************************************************************)
\* The rows the table may hold.
Row(id) == [id |-> id, name |-> "index"]
Tables == SUBSET {Row(1), Row(2), Row(12)}

\* The texts given as ids, character by character (main splits the command
\* line at commas: an element may be empty).
IdTexts ==
    { <<"1">>, <<"2">>, <<"1", "2">>, <<"0", "1">>, <<" ", "2">>, <<"-", "1">>,
      <<"x">>, <<>>, <<"1", ".", "0">>, <<"1", "x">> }
IdLists == UNION {[1..n -> IdTexts] : n \in 0..MaxIds}

\* Python's int(text): surrounding whitespace is dropped, a sign may come
\* first, the rest is one or more decimal digits; anything else is a
\* ValueError.
IsDigit(c) == c \in {"0", "1", "2"}
DigitValue(c) == CASE c = "0" -> 0 [] c = "1" -> 1 [] c = "2" -> 2

RECURSIVE LStrip(_)
LStrip(text) ==
    IF text # <<>> /\ Head(text) = " " THEN LStrip(Tail(text)) ELSE text

RECURSIVE RStrip(_)
RStrip(text) ==
    IF text # <<>> /\ text[Len(text)] = " "
    THEN RStrip(SubSeq(text, 1, Len(text) - 1))
    ELSE text

RECURSIVE DecimalValue(_, _)
DecimalValue(digits, acc) ==
    IF digits = <<>> THEN acc
    ELSE DecimalValue(Tail(digits), 10 * acc + DigitValue(Head(digits)))

int(text) ==
    LET stripped == RStrip(LStrip(text))
        signed == stripped # <<>> /\ stripped[1] \in {"-", "+"}
        digits == IF signed THEN Tail(stripped) ELSE stripped
    IN IF digits = <<>> \/ \E k \in 1..Len(digits) : ~IsDigit(digits[k])
       THEN [error |-> TRUE, value |-> 0]
       ELSE [error |-> FALSE,
             value |-> IF signed /\ stripped[1] = "-"
                       THEN 0 - DecimalValue(digits, 0)
                       ELSE DecimalValue(digits, 0)]

\* What the operator may type at the prompt, and str.lower of it.
Responses ==
    { <<"y", "e", "s">>, <<"Y", "E", "S">>, <<"Y", "e", "s">>, <<"y">>, <<"Y">>,
      <<"n", "o">>, <<"n">>, <<>>, <<"y", "e", "s", " ">> }
LowerChar(c) ==
    CASE c = "Y" -> "y" [] c = "E" -> "e" [] c = "S" -> "s" [] OTHER -> c
lower(response) == [k \in 1..Len(response) |-> LowerChar(response[k])]

\* A prompt that goes on unless the answer is no.
ConfirmedUnlessNo(response) == lower(response) \notin {<<"n", "o">>, <<"n">>}

\* Line 55: response.lower() in ['yes', 'y'].
Confirmed(response) == lower(response) \in {<<"y", "e", "s">>, <<"y">>}

\* Lines 17-21: select(Index).where(Index.id.in_(ids)).
get_existing_records(ids) == {record \in mtable : record.id \in ids}

NoMaintArgs == [ids |-> <<>>, confirm |-> TRUE]

\* The function prints a message and returns (it returns None on every path).
MaintReturns(message) ==
    /\ mpc' = "returned"
    /\ mout' = message

\* Lines 72-73: an exception inside the try: the Session is closed, an open
\* transaction is rolled back, the error is printed.
MaintFails == MaintReturns("Error during deletion")

\* Lines 23-37: the call, the empty-list test and the conversion of the ids.
MaintCall ==
    /\ mpc = "idle"
    /\ \E ids \in IdLists, confirm \in BOOLEAN :
         /\ margs' = [ids |-> ids, confirm |-> confirm]
         /\ IF ids = <<>>
            THEN MaintReturns("No IDs provided") /\ UNCHANGED mids
            ELSE IF \E k \in 1..Len(ids) : int(ids[k]).error
            THEN MaintReturns("Invalid ID format") /\ UNCHANGED mids
            ELSE /\ mids' = {int(ids[k]).value : k \in 1..Len(ids)}
                 /\ mpc' = "converted"
                 /\ mout' = "Attempting to delete"
    /\ UNCHANGED <<mtable, mtable0, mexisting, mlisted, mresponse>>
    /\ UNCHANGED <<storeVars, delVars, addVars, folderVars, runVars, scoreVars>>

\* Lines 40-53: the query for the existing records and their listing.
MaintSelect ==
    /\ mpc = "converted"
    /\ \/ LET existing_records == get_existing_records(mids) IN
          /\ mexisting' = existing_records
          /\ IF existing_records = {}
             THEN MaintReturns("No records found") /\ UNCHANGED mlisted
             ELSE /\ mlisted' = existing_records
                  /\ mout' = "Found records to delete"
                  /\ mpc' = IF margs.confirm THEN "asking" ELSE "deleting"
       \/ MaintFails /\ UNCHANGED <<mexisting, mlisted>>
    /\ UNCHANGED <<mtable, mtable0, margs, mids, mresponse>>
    /\ UNCHANGED <<storeVars, delVars, addVars, folderVars, runVars, scoreVars>>

\* Lines 53-57: the prompt and the operator's answer (input may fail).
MaintAnswer ==
    /\ mpc = "asking"
    /\ \/ \E response \in Responses :
            /\ mresponse' = Some(response)
            /\ IF Confirmed(response)
               THEN mpc' = "deleting" /\ UNCHANGED mout
               ELSE MaintReturns("Deletion cancelled")
       \/ MaintFails /\ UNCHANGED mresponse
    /\ UNCHANGED <<mtable, mtable0, margs, mids, mexisting, mlisted>>
    /\ UNCHANGED <<storeVars, delVars, addVars, folderVars, runVars, scoreVars>>

\* Lines 59-70: delete(Index).where(Index.id.in_(existing_ids)) and the commit.
MaintDelete ==
    /\ mpc = "deleting"
    /\ \/ LET existing_ids == {record.id : record \in mexisting} IN
          /\ mtable' = {record \in mtable : record.id \notin existing_ids}
          /\ MaintReturns("Successfully deleted")
       \/ MaintFails /\ UNCHANGED mtable
    /\ UNCHANGED <<mtable0, margs, mids, mexisting, mlisted, mresponse>>
    /\ UNCHANGED <<storeVars, delVars, addVars, folderVars, runVars, scoreVars>>

(***************************************************************************)
(* Concurrent deletes.                                                      *)
(***************************************************************************)
\* No call of delete_file_from_index has been made.
DeleteIdle ==
    /\ dpc = [p \in Procs |-> "idle"]
    /\ dargs = [p \in Procs |-> NoArgs]
    /\ dsess = [p \in Procs |-> NoSession]
    /\ dcalls = [p \in Procs |-> NoCalls]
    /\ dres = [p \in Procs |-> NoResult]

\* No call of index_single_file has been made.
AddIdle ==
    /\ apc = [p \in Procs |-> "idle"]
    /\ aargs = [p \in Procs |-> NoAddArgs]
    /\ apipe = [p \in Procs |-> NoPipeline]
    /\ ares = [p \in Procs |-> NoAddResult]
    /\ afault = [p \in Procs |-> FALSE]
    /\ locks = {}
    /\ acalls = <<>>
    /\ asnap = NONE

\* No call of index_folder has been made.
FolderIdle ==
    /\ fpc = "idle"
    /\ fargs = NoFolderArgs
    /\ ffiles = <<>>
    /\ fi = 0
    /\ fcounts = NoCounts
    /\ fresults = <<>>
    /\ fres = NoReport
    /\ fexc = NoExc
    /\ flog = <<>>

\* No call of run has been made.
RunIdle ==
    /\ rpc = "idle"
    /\ rargs = NoRunArgs
    /\ rscope = <<>>
    /\ rchunks = {}
    /\ rdocs = <<>>
    /\ rres = <<>>
    /\ rexc = NoExc
    /\ rqueries = <<>>
    /\ rretrievals = <<>>
    /\ rextra = <<>>

\* No call of generate_relevant_scores has been made.
ScoreIdle ==
    /\ spc = "idle"
    /\ sargs = NoScoreArgs
    /\ sres = <<>>
    /\ sexc = NoExc

\* No call of delete_records_by_ids has been made.
MaintIdle ==
    /\ mpc = "idle"
    /\ margs = NoMaintArgs
    /\ mids = {}
    /\ mexisting = {}
    /\ mlisted = {}
    /\ mresponse = NONE
    /\ mout = ""

InitDelete ==
    /\ sources \in SourceTables
    \* source 1 has no or all chunks of each type, source 2 all of them
    /\ \E nv, nd \in {0, MaxChunks} :
           relations = RelationsOf(1, nv, nd) \cup RelationsOf(2, MaxChunks, MaxChunks)
    /\ vs = TargetsOf(relations, "vector")
    /\ ds = TargetsOf(relations, "document")
    /\ rels0 = relations
    /\ nextId = 3
    /\ DeleteIdle
    /\ AddIdle
    /\ FolderIdle
    /\ RunIdle
    /\ ScoreIdle
    /\ MaintIdle
    /\ mtable = {}
    /\ mtable0 = {}
    /\ rmeta = FullMeta

NextDelete ==
    \/ \E p \in Procs : DeleteCall(p)
    \/ \E p \in Procs : DeleteQuery(p)
    \/ \E p \in Procs : DeleteLoad(p)
    \/ \E p \in Procs : DeleteCommit(p)
    \/ \E p \in Procs : DeleteVS(p)
    \/ \E p \in Procs : DeleteDS(p)
    \/ \E p \in Procs : DeleteCrash(p)

SpecDelete == InitDelete /\ [][NextDelete]_vars

(***************************************************************************)
(* Concurrent calls of index_single_file, and calls made one after         *)
(* another.  The index holds nothing, or a.pdf of u1 with all its chunks.  *)
(***************************************************************************)
InitAdd ==
    /\ sources \in {{}, {Source(1, "a.pdf", "u1")}}
    /\ relations = UNION {RelationsOf(s.id, MaxChunks, MaxChunks) : s \in sources}
    /\ vs = TargetsOf(relations, "vector")
    /\ ds = TargetsOf(relations, "document")
    /\ rels0 = relations
    /\ nextId = 2
    /\ DeleteIdle
    /\ AddIdle
    /\ FolderIdle
    /\ RunIdle
    /\ ScoreIdle
    /\ MaintIdle
    /\ mtable = {}
    /\ mtable0 = {}
    /\ rmeta = FullMeta

AddWork ==
    \/ \E p \in Procs : AddCheck(p)
    \/ \E p \in Procs : AddRemoveCatalog(p)
    \/ \E p \in Procs : AddRemoveStores(p)
    \/ \E p \in Procs : AddWriteChunks(p)
    \/ \E p \in Procs : AddWriteRelations(p)
    \/ \E p \in Procs : AddWriteSource(p)

NextAdd ==
    \/ \E p \in Procs : AddCall(p)
    \/ \E p \in Procs : AddNoIndex(p)
    \/ AddWork

SpecAdd == InitAdd /\ [][NextAdd]_vars

NextAddSeq ==
    \/ \E p \in Procs : AddCallInSequence(p)
    \/ AddWork

SpecAddSeq == InitAdd /\ [][NextAddSeq]_vars

(***************************************************************************)
(* Calls of index_single_file whose stream behaves in any way.             *)
(***************************************************************************)
NextResult == \E p \in Procs : AddOutcome(p)

SpecResult == InitAdd /\ [][NextResult]_vars

(***************************************************************************)
(* One call of index_folder on an index that holds nothing, or a.pdf of    *)
(* u1.                                                                     *)
(***************************************************************************)
NextFolder ==
    \/ FolderCall
    \/ FolderIndexFile
    \/ FolderCollect
    \/ FolderPropagate
    \/ FolderReturn
    \/ AddNoIndex(FolderCaller)
    \/ AddWork

SpecFolder == InitAdd /\ [][NextFolder]_vars

(***************************************************************************)
(* One call of index_folder on a folder whose listing comes in any order.  *)
(***************************************************************************)
NextListing ==
    \/ FolderCallListed
    \/ FolderIndexFile
    \/ FolderCollect
    \/ FolderReturn
    \/ AddWork

SpecListing == InitAdd /\ [][NextListing]_vars

(***************************************************************************)
(* One call of delete_records_by_ids on a table of up to three rows.       *)
(***************************************************************************)
InitMaint ==
    /\ sources = {} /\ relations = {} /\ vs = {} /\ ds = {} /\ rels0 = {}
    /\ nextId = 1
    /\ DeleteIdle
    /\ AddIdle
    /\ FolderIdle
    /\ RunIdle
    /\ ScoreIdle
    /\ rmeta = FullMeta
    /\ MaintIdle
    /\ mtable \in Tables
    /\ mtable0 = mtable

NextMaint ==
    \/ MaintCall
    \/ MaintSelect
    \/ MaintAnswer
    \/ MaintDelete

SpecMaint == InitMaint /\ [][NextMaint]_vars

(***************************************************************************)
(* One call of run on a catalog of two sources with all their chunks.      *)
(***************************************************************************)
InitRun ==
    /\ sources \in SourceTables
    /\ relations = UNION {RelationsOf(s.id, MaxChunks, MaxChunks) : s \in sources}
    /\ vs = TargetsOf(relations, "vector")
    /\ ds = TargetsOf(relations, "document")
    /\ rels0 = relations
    /\ nextId = 3
    /\ DeleteIdle
    /\ AddIdle
    /\ FolderIdle
    /\ RunIdle
    /\ ScoreIdle
    /\ MaintIdle
    /\ mtable = {}
    /\ mtable0 = {}
    /\ rmeta \in MetaKinds

NextRun ==
    \/ RunCall
    \/ RunQuery
    \/ RunRetrieve
    \/ RunAugment

SpecRun == InitRun /\ [][NextRun]_vars

(***************************************************************************)
(* One call of generate_relevant_scores on documents of the stores.        *)
(***************************************************************************)
NextScore == generate_relevant_scores

SpecScore == InitRun /\ [][NextScore]_vars

(***************************************************************************)
(* Properties of delete_file_from_index.                                   *)
(***************************************************************************)
\* C1: in every reachable state of concurrent deletes, with crashes between
\* steps and failing store calls, every committed Index row still has its
\* target in the store of its type: a store record is removed only after the
\* transaction that removed its Index row has committed.
C1_NoDanglingReference ==
    \A r \in relations :
        /\ r.relation_type = "vector" => r.target_id \in vs
        /\ r.relation_type = "document" => r.target_id \in ds

\* A delete has removed vector-store records, a caller has crashed, and
\* document-store records are left without any Index row (orphans).
C1_Witness ==
    /\ \E p \in Procs : dpc[p] = "crashed"
    /\ TargetsOf(rels0, "vector") \ vs # {}
    /\ ds \ TargetsOf(relations, "document") # {}

\* The initial Index rows of source sid.
InitialRelations(sid) == {r \in rels0 : r.source_id = sid}

\* C2: at any moment of any interleaving of deletes, what a catalog reader
\* observes of a source is its Source row with all of its Index rows, or
\* nothing: never the Source gone with relations left, never a part of them.
C2_AtomicSnapshot ==
    \A sid \in SourceIds :
        \/ /\ Snapshot(sid).source # {}
           /\ Snapshot(sid).rels = InitialRelations(sid)
        \/ /\ Snapshot(sid).source = {}
           /\ Snapshot(sid).rels = {}

\* A delete is inside its transaction (Source DELETE flushed, Index rows
\* marked), and the reader still sees the Source with all its relations.
C2_Witness ==
    \E p \in Procs :
        /\ dpc[p] = "loaded"
        /\ dsess[p].flushed
        /\ dsess[p].delRel # {}
        /\ Snapshot(dsess[p].source[1].id).source # {}
        /\ Snapshot(dsess[p].source[1].id).rels = dsess[p].delRel

\* C3: once delete_file_from_index has returned success with file_id f, the
\* catalog holds no Source row with id f and no Index row with source_id f.
C3_DeleteCascades ==
    \A p \in Procs :
        (dpc[p] = "returned" /\ dres[p].success) =>
            /\ \A s \in sources : s.id # dres[p].file_id[1]
            /\ \A r \in relations : r.source_id # dres[p].file_id[1]

\* A delete has returned success for a source that had relations of both types.
C3_Witness ==
    \E p \in Procs :
        /\ dpc[p] = "returned"
        /\ dres[p].success
        /\ {r.relation_type : r \in InitialRelations(dres[p].file_id[1])} = RelationTypes

\* C4: no store call is ever made with an empty id list (neither the vector
\* store's delete nor the document store's delete).
C4_NoEmptyStoreCall ==
    \A p \in Procs :
        /\ \A i \in DOMAIN dcalls[p].vs : dcalls[p].vs[i] # {}
        /\ \A i \in DOMAIN dcalls[p].ds : dcalls[p].ds[i] # {}

(***************************************************************************)
(* Properties of index_single_file.                                        *)
(***************************************************************************)
\* The call of p is past the existence check, writing.
Writing(p) == apc[p] \in {"writing", "chunked", "related"}

SameFile(p, q) ==
    /\ p # q
    /\ apc[p] # "idle" /\ apc[q] # "idle"
    /\ Key(aargs[p]) = Key(aargs[q])

\* C5: when the concurrent calls of index_single_file all have reindex=false,
\* two calls for the same (name, user) are never both past the existence
\* check writing, a call is writing only while no Source of its (name, user)
\* exists, at most one Source row exists per (name, user), and at most one of
\* two calls for the same (name, user) returns status indexed.
C5_SerializedAdd ==
    (\A p \in Procs : ~aargs[p].reindex) =>
        /\ \A p, q \in Procs :
               SameFile(p, q) =>
                   /\ ~(Writing(p) /\ Writing(q))
                   /\ ~(/\ apc[p] = "returned" /\ ares[p].status = "indexed"
                        /\ apc[q] = "returned" /\ ares[q].status = "indexed")
        /\ \A p \in Procs : Writing(p) => Existing(aargs[p]) = {}
        /\ \A n \in Names, u \in Users :
               Cardinality({s \in sources : s.name = n /\ s.user = u}) <= 1

\* One call is writing while another call for the same (name, user), also
\* with reindex=false, stands before the existence check.
C5_Witness ==
    \E p, q \in Procs :
        /\ SameFile(p, q)
        /\ ~aargs[p].reindex /\ ~aargs[q].reindex
        /\ Writing(p)
        /\ apc[q] = "called"
        /\ get_index(aargs[q].index_name, aargs[q].index_id) # NONE

\* The i-th and the next call were made for the same file and user, and both
\* have returned.
Consecutive(i) ==
    /\ apc[acalls[i]] = "returned"
    /\ apc[acalls[i + 1]] = "returned"
    /\ Key(aargs[acalls[i]]) = Key(aargs[acalls[i + 1]])

\* C6: of two calls in sequence for the same file and user with
\* reindex=false, when the first returned indexed the second (no store call
\* of which fails) returns skipped with success true and no file_id, leaves
\* the catalog, the vector store and the document store as it found them,
\* and exactly one Source row of the file exists afterwards.
C6_IdempotentAdd ==
    \A i \in 1..(Len(acalls) - 1) :
        (/\ Consecutive(i)
         /\ ~aargs[acalls[i]].reindex /\ ~aargs[acalls[i + 1]].reindex
         /\ ares[acalls[i]].status = "indexed") =>
            /\ ~afault[acalls[i + 1]] =>
                   ares[acalls[i + 1]] = AddResult(TRUE, NONE, "skipped")
            /\ (i + 1 = Len(acalls)) =>
                   /\ asnap = Some(<<sources, relations, vs, ds>>)
                   /\ Cardinality(Existing(aargs[acalls[i + 1]])) = 1

\* Two such calls have been made, and the second has returned.
C6_Witness ==
    \E i \in 1..(Len(acalls) - 1) :
        /\ Consecutive(i)
        /\ ~aargs[acalls[i]].reindex /\ ~aargs[acalls[i + 1]].reindex
        /\ ares[acalls[i]].status = "indexed"
        /\ ares[acalls[i + 1]].status = "skipped"
        /\ i + 1 = Len(acalls)

\* The footprint the latest call found of its file: the Source rows of its
\* (name, user), their Index rows, and the targets of these.
LatestCall == acalls[Len(acalls)]
OldSources == {s \in asnap[1][1] : <<s.name, s.user>> = Key(aargs[LatestCall])}
OldIndexRows == {r \in asnap[1][2] : r.source_id \in {s.id : s \in OldSources}}

\* C7: a call with reindex=true writes its new chunks only after the old
\* footprint of the file is gone (its Source rows, their Index rows and the
\* store records these point at), and when it has returned indexed the
\* catalog holds, for the file, the new Source row and exactly the Index rows
\* of the new chunk set; every other row is as the call found it.
C7_ReindexReplaces ==
    (/\ acalls # <<>>
     /\ aargs[LatestCall].reindex
     /\ \/ Writing(LatestCall)
        \/ apc[LatestCall] = "returned" /\ ares[LatestCall].status = "indexed") =>
        /\ sources \cap OldSources = {}
        /\ relations \cap OldIndexRows = {}
        /\ vs \cap TargetsOf(OldIndexRows, "vector") = {}
        /\ ds \cap TargetsOf(OldIndexRows, "document") = {}
        /\ apc[LatestCall] = "returned" =>
             LET new == ares[LatestCall].file_id[1]
                 n == aargs[LatestCall].chunks
             IN /\ Existing(aargs[LatestCall]) =
                       {Source(new, aargs[LatestCall].name, aargs[LatestCall].user)}
                /\ relations = (asnap[1][2] \ OldIndexRows) \cup RelationsOf(new, n, n)
                /\ sources = (asnap[1][1] \ OldSources) \cup Existing(aargs[LatestCall])

\* Add(f) returned indexed, and then Add(f, reindex=true) returned indexed.
C7_Witness ==
    /\ Len(acalls) >= 2
    /\ Consecutive(Len(acalls) - 1)
    /\ ares[acalls[Len(acalls) - 1]].status = "indexed"
    /\ aargs[LatestCall].reindex
    /\ ares[LatestCall].status = "indexed"
    /\ Source(ares[acalls[Len(acalls) - 1]].file_id[1],
              aargs[LatestCall].name, aargs[LatestCall].user) \in OldSources

(***************************************************************************)
(* Properties of index_folder.                                             *)
(***************************************************************************)
\* The number of entries of results whose status is in S.
CountStatus(results, S) ==
    Cardinality({k \in 1..Len(results) : results[k].status \in S})

\* C8: whatever files of a batch fail to index, index_folder (its callback,
\* if any, returning) does not raise once it has the batch, and the report
\* it returns has one entry per file of the batch, in the order of the
\* batch, with exactly the entries that are neither indexed nor skipped
\* counted in errors.
C8_BatchIsolation ==
    /\ (ffiles # <<>> /\ fargs.callback # "raises") => fpc # "raised"
    /\ fpc = "returned" =>
           /\ Len(fres.results) = Len(ffiles)
           /\ \A k \in 1..Len(ffiles) : fres.results[k].file_name = ffiles[k]
           /\ fres.errors = CountStatus(fres.results, {"failed", "error"})

\* C9: the report index_folder returns has indexed + skipped + errors =
\* total_files = the number of entries of results, each counter is the
\* number of entries of its status (whatever is neither indexed nor skipped
\* is an error), and success is true exactly when errors is 0.
C9_ReportCounters ==
    fpc = "returned" =>
        /\ fres.indexed + fres.skipped + fres.errors = fres.total_files
        /\ fres.total_files = Len(fres.results)
        /\ fres.indexed = CountStatus(fres.results, {"indexed"})
        /\ fres.skipped = CountStatus(fres.results, {"skipped"})
        /\ fres.errors =
               Len(fres.results) - CountStatus(fres.results, {"indexed", "skipped"})
        /\ fres.success <=> (fres.errors = 0)

\* A report of a batch of which one file was indexed, one skipped, and one
\* failed.
C9_Witness ==
    /\ fpc = "returned"
    /\ fres.indexed = 1 /\ fres.skipped = 1 /\ fres.errors = 1
    /\ ~fres.success

(***************************************************************************)
(* Properties of DocumentRetrievalPipeline.run.                            *)
(***************************************************************************)
\* The scope of the call is empty: doc_ids is absent, an empty list, or a
\* list that flattens to an empty list.
EmptyScopeCall ==
    /\ rpc # "idle"
    /\ \/ rargs.doc_ids = NONE
       \/ /\ rargs.doc_ids # NONE
          /\ Flatten(rargs.doc_ids[1], <<>>) = Flat(NoExc, <<>>)

\* C10: run called with an empty scope returns an empty list, and issues no
\* catalog query and no vector-store retrieval.
C10_EmptyScope ==
    EmptyScopeCall =>
        /\ rpc = "returned"
        /\ rres = <<>>
        /\ rqueries = <<>>
        /\ rretrievals = <<>>

\* run has returned from a call whose doc_ids is a non-empty list that
\* flattens to an empty list.
C10_Witness ==
    /\ EmptyScopeCall
    /\ rargs.doc_ids # NONE
    /\ rargs.doc_ids[1] # <<>>
    /\ rpc = "returned"

\* The ids a text names, in order: its tokens that are ids.
IdsOf(text) == SelectSeq(text, LAMBDA token : token \in IdTokens)

\* An element of a scope list that is a plain id, and one that is the JSON
\* text of a list of ids.
IsPlainId(doc_id) ==
    ~doc_id.isNone /\ Len(doc_id.text) = 1 /\ doc_id.text[1] \in IdTokens
IsIdList(doc_id) ==
    /\ ~doc_id.isNone
    /\ Len(doc_id.text) >= 2
    /\ doc_id.text[1] = "[" /\ doc_id.text[Len(doc_id.text)] = "]"
    /\ LET inner == SubSeq(doc_id.text, 2, Len(doc_id.text) - 1)
       IN /\ inner = <<>> \/ Len(inner) % 2 = 1
          /\ \A k \in 1..Len(inner) :
                 IF k % 2 = 1 THEN inner[k] \in IdTokens ELSE inner[k] = ","

\* The one-level flattening of such a list: every id it names, in order.
RECURSIVE OneLevel(_)
OneLevel(doc_ids) ==
    IF doc_ids = <<>> THEN <<>>
    ELSE [k \in 1..Len(IdsOf(Head(doc_ids).text)) |->
              Str(<<IdsOf(Head(doc_ids).text)[k]>>)] \o OneLevel(Tail(doc_ids))

\* run has been called with a list of plain ids and JSON lists of ids.
IdScopeCall ==
    /\ rpc # "idle"
    /\ rargs.doc_ids # NONE
    /\ \A k \in 1..Len(rargs.doc_ids[1]) :
           IsPlainId(rargs.doc_ids[1][k]) \/ IsIdList(rargs.doc_ids[1][k])

\* C11: for a scope list of plain ids and JSON-encoded lists of ids, run
\* works on the one-level flattened list of the ids in order, which run
\* itself leaves as it is: the catalog query is made with it, the retrieval
\* is given it as filter and the chunks of its sources as scope, and the
\* documents retrieved are chunks of its sources.
C11_FlattenEquivalence ==
    IdScopeCall =>
        LET flat == OneLevel(rargs.doc_ids[1])
        IN /\ Flatten(rargs.doc_ids[1], <<>>) = Flat(NoExc, flat)
           /\ Flatten(flat, <<>>) = Flat(NoExc, flat)
           /\ rexc \notin {"ValueError", "JSONDecodeError"}
           /\ flat # <<>> => rscope = flat
           /\ \A k \in 1..Len(rqueries) : rqueries[k] = flat
           /\ rretrievals # <<>> =>
                  rretrievals[1] = BaseRetrieval(ChunkIds(flat), flat, rargs.mmr)
           /\ \A k \in 1..Len(rdocs) : rdocs[k] \in ChunkIds(flat)

\* run has returned documents for a list that holds a JSON list of two ids.
C11_Witness ==
    /\ IdScopeCall
    /\ \E k \in 1..Len(rargs.doc_ids[1]) :
           IsIdList(rargs.doc_ids[1][k]) /\ Len(IdsOf(rargs.doc_ids[1][k].text)) = 2
    /\ rpc = "returned"
    /\ rres # <<>>

\* json.JSONDecodeError is a subclass of ValueError.
IsValueError(exc) == exc \in {"ValueError", "JSONDecodeError"}

\* run has been called with a list that holds None.
NullScopeCall ==
    /\ rpc # "idle"
    /\ rargs.doc_ids # NONE
    /\ \E k \in 1..Len(rargs.doc_ids[1]) : rargs.doc_ids[1][k].isNone

\* C12: run called with a scope list that holds None at any position raises
\* a ValueError: it issues no catalog query and no vector-store retrieval,
\* and returns nothing.
C12_NullRejected ==
    NullScopeCall =>
        /\ rpc = "raised"
        /\ IsValueError(rexc)
        /\ rqueries = <<>>
        /\ rretrievals = <<>>
        /\ rres = <<>>

\* run has raised for a list whose None comes after an id.
C12_Witness ==
    /\ NullScopeCall
    /\ IsPlainId(rargs.doc_ids[1][1])
    /\ rpc = "raised"
    /\ rexc = "ValueError"

\* The exceptions run raises before its augmentation step.
BeforeAugmentation == {"ValueError", "JSONDecodeError", "OperationalError", "RetrievalError"}

\* C13: with get_extra_table, run does not raise once it has its base
\* result, whatever fails in the augmentation, and what it returns begins
\* with the base result.
C13_AugmentationNonFatal ==
    rargs.get_extra_table =>
        /\ rpc = "raised" => rexc \in BeforeAugmentation
        /\ rpc = "returned" => SubSeq(rres, 1, Len(rdocs)) = rdocs

\* The ids of the documents of a list, and a list without repetition.
IdSet(docs) == {docs[k] : k \in 1..Len(docs)}
NoDuplicates(docs) == \A i, j \in 1..Len(docs) : docs[i] = docs[j] => i = j

\* The documents of extra_docs that are not among the base results, in the
\* order of extra_docs.
NewOf(extra_docs, docs) == SelectSeq(extra_docs, LAMBDA d : d \notin IdSet(docs))

\* What run returns begins with the base results in their order, and goes
\* on with the augmentation results in the order of their retrieval.
BaseThenExtra ==
    /\ SubSeq(rres, 1, Len(rdocs)) = rdocs
    /\ SubSeq(rres, Len(rdocs) + 1, Len(rres)) = NewOf(rextra, rdocs)

C15_ScopedResult ==
    rpc = "returned" => \A k \in 1..Len(rres) : rres[k] \in ChunkIds(rscope)

\* C16: generate_relevant_scores returns the documents it was given when no
\* scorer is set, and also when the call of the scorer fails: it does not
\* raise.
C16_ScorerFailureKeepsResults ==
    /\ spc # "raised"
    /\ (spc = "returned" /\ ~sargs.llm_scorer) => sres = sargs.documents

(***************************************************************************)
(* C17: when index._vs.delete or index._docstore.delete fails after the    *)
(* commit of line 339, the call returns success = false with the cause in  *)
(* its message, and the failing exit rolls nothing back: the Source row    *)
(* and its Index rows stay deleted, and the store records already removed  *)
(* stay removed.  Stated on the step that returns from a call that has     *)
(* committed: success is reported only when no record of the Source is     *)
(* left in either store.                                                   *)
(***************************************************************************)
ReturnsAfterCommit(p) ==
    dpc[p] \in {"committed", "vsdone"} /\ dpc'[p] = "returned"

StoreFailureOf(p) ==
    IF dpc[p] = "committed" THEN VectorStoreFailure ELSE DocStoreFailure

C17_StoreFailureSurfaced ==
    [][\A p \in Procs :
         ReturnsAfterCommit(p) =>
           /\ dres'[p].success =>
                 /\ vs' \cap dsess[p].vs_ids = {}
                 /\ ds' \cap dsess[p].ds_ids = {}
           /\ ~dres'[p].success => dres'[p] = Result(FALSE, NONE, StoreFailureOf(p))
           /\ sources' = sources /\ relations' = relations
           /\ dsess[p].source[1] \notin sources'
           /\ relations' \cap dsess[p].delRel = {}
           /\ vs' \subseteq vs /\ ds' \subseteq ds]_vars

\* A call has returned the vector-store failure, one of the records it asked
\* the vector store to delete is still there, the document store was never
\* called, and the Index rows of the Source are gone from the catalog.
C17_Witness ==
    \E p \in Procs :
      /\ dpc[p] = "returned"
      /\ dres[p] = Result(FALSE, NONE, VectorStoreFailure)
      /\ Len(dcalls[p].vs) = 1 /\ dcalls[p].ds = <<>>
      /\ dcalls[p].vs[1] \cap vs # {}
      /\ \A r \in rels0 : r.target_id \in dcalls[p].vs[1] => r \notin relations

(***************************************************************************)
(* C18: a failure of the catalog transaction before the commit of line 339 *)
(* leaves the catalog as it was before the call, issues no vector-store or *)
(* document-store delete, and returns success = false.  Stated on every    *)
(* step a call takes before its commit (the query, session.delete and the  *)
(* flush, and the exit through the except clause): none of them changes a  *)
(* committed table or a store, none has called a store, and a step that    *)
(* returns gives success = false.                                          *)
(***************************************************************************)
StepBeforeCommit(p) ==
    /\ dpc[p] \in {"called", "found", "loaded"}
    /\ dpc'[p] \notin {dpc[p], "committed"}

C18_RollbackBeforeCommit ==
    [][\A p \in Procs :
         StepBeforeCommit(p) =>
           /\ sources' = sources /\ relations' = relations
           /\ vs' = vs /\ ds' = ds
           /\ dcalls[p] = NoCalls /\ dcalls'[p] = NoCalls
           /\ dpc'[p] = "returned" => ~dres'[p].success]_vars

\* A call has returned the catalog failure while its Source row and every Index
\* row are still in the catalog and no store was called by anyone.
C18_Witness ==
    \E p \in Procs :
      /\ dpc[p] = "returned"
      /\ dres[p] = Result(FALSE, NONE, CatalogFailure)
      /\ \E s \in sources : s.name \in FileArgs
      /\ relations = rels0 /\ relations # {}
      /\ \A q \in Procs : dcalls[q] = NoCalls

(***************************************************************************)
(* C19: a call for a (file name, user) that matches no Source returns the  *)
(* not-found result (success = false, "File not found in index") and       *)
(* changes none of the three stores: no catalog row is deleted and neither *)
(* the vector store nor the document store is called.  Stated on the step  *)
(* that runs the Source query of such a call, a failing query and a dying  *)
(* process apart.                                                          *)
(***************************************************************************)
MatchingSources(name, user) ==
    {s \in sources : s.name = name /\ s.user = user}

QueryCompletes(p) ==
    /\ dpc[p] = "called"
    /\ dpc'[p] \notin {"called", "crashed"}
    /\ ~(dpc'[p] = "returned" /\ dres'[p] = Result(FALSE, NONE, CatalogFailure))

C19_NotFoundLeavesStores ==
    [][\A p \in Procs :
         (QueryCompletes(p) /\ MatchingSources(dargs[p].name, dargs[p].user) = {}) =>
           /\ dpc'[p] = "returned"
           /\ dres'[p] = Result(FALSE, NONE, "File not found in index")
           /\ sources' = sources /\ relations' = relations
           /\ vs' = vs /\ ds' = ds
           /\ dcalls'[p] = NoCalls]_vars

(***************************************************************************)
(* C20: the Source is resolved by (name, user): whatever user_id the       *)
(* caller passes, the Source whose row, Index rows and store records a     *)
(* call removes has the given file name and is owned by that user_id.      *)
(***************************************************************************)
HasRemoved(p) == dpc[p] \in {"committed", "vsdone"}

C20_ResolvesByNameAndUser ==
    \A p \in Procs :
      HasRemoved(p) =>
        /\ dsess[p].source[1].name = dargs[p].name
        /\ dsess[p].source[1].user = dargs[p].user

(***************************************************************************)
(* C21: with a progress callback, index_folder invokes the callback once   *)
(* per file, with (i, total, path of file i) for i = 1, 2, ... in order;   *)
(* the invocation for file i comes before index_single_file is called for  *)
(* file i and after the result of file i - 1 is recorded.  At every moment *)
(* what the loop has done is a beginning of the sequence callback(1),      *)
(* call(1), result(1), callback(2), ..., and a call that returns has done  *)
(* all of it.                                                              *)
(***************************************************************************)
EventKinds == <<"callback", "call", "result">>

ExpectedEvent(k) ==
    LET i == ((k - 1) \div 3) + 1 IN
    [kind |-> EventKinds[((k - 1) % 3) + 1], i |-> i, total |-> Len(ffiles),
     file |-> ffiles[i]]

C21_CallbackOrder ==
    fargs.callback # "none" =>
      /\ Len(flog) <= 3 * Len(ffiles)
      /\ \A k \in 1..Len(flog) : flog[k] = ExpectedEvent(k)
      /\ fpc = "returned" => Len(flog) = 3 * Len(ffiles)

\* A call with a callback has returned from a folder of three supported files.
C21_Witness ==
    /\ fpc = "returned"
    /\ fargs.callback = "returns"
    /\ Len(ffiles) = 3
    /\ Len(flog) = 9

(***************************************************************************)
(* C22: the progress callback is a pure notification: whatever it does,    *)
(* return or fail, index_folder processes the same files and returns the   *)
(* same report as without a callback.  In particular a call is never ended *)
(* by what its callback does.                                              *)
(***************************************************************************)
C22_CallbackIsNotification ==
    ~(fpc = "raised" /\ fexc = "callback failed")

(***************************************************************************)
(* C23: index_folder processes the files of a batch in ascending path      *)
(* order, each file once, and the entries of results come in that same     *)
(* order, in whatever order the folder listing yields the files.  The      *)
(* files handed to index_single_file so far are in strictly ascending      *)
(* order, and when the call returns they are the supported files of the    *)
(* listing, each once, and the file names of results are the same list.    *)
(***************************************************************************)
FilesOf(events) == [k \in 1..Len(events) |-> events[k].file]
CallsMade == FilesOf(SelectSeq(flog, LAMBDA e : e.kind = "call"))
Ascending(files) ==
    \A j, k \in 1..Len(files) : j < k => PathRank(files[j]) < PathRank(files[k])
SupportedIn(listing) ==
    {listing[k] : k \in {j \in 1..Len(listing) : IsSupported(listing[j])}}

C23_SortedOrder ==
    /\ Ascending(CallsMade)
    /\ fpc = "returned" =>
          /\ {CallsMade[k] : k \in 1..Len(CallsMade)} = SupportedIn(fargs.listing)
          /\ [k \in 1..Len(fres.results) |-> fres.results[k].file_name] = CallsMade

\* A call has returned from a folder whose listing yields c.txt first and
\* b.pdf before a.pdf, with a result for each of the three.
C23_Witness ==
    /\ fpc = "returned"
    /\ Len(fargs.listing) >= 3
    /\ fargs.listing[1] = "c.txt" /\ fargs.listing[2] = "b.pdf"
    /\ Len(fres.results) = 3

(***************************************************************************)
(* C25: index_folder called with neither index_name nor index_id, when an  *)
(* index exists and the folder holds a supported file, uses the first      *)
(* index for every file and returns its report: it does not raise.  (The   *)
(* call has no callback, or one that returns.)                             *)
(***************************************************************************)
DefaultIndexCall ==
    /\ fpc # "idle"
    /\ fargs.index_name = NoName /\ fargs.index_id = NoId
    /\ fargs.callback # "raises"
    /\ Indices # <<>>
    /\ Len(ffiles) >= 1

C25_DefaultIndex ==
    DefaultIndexCall => fpc # "raised"

(***************************************************************************)
(* C26: one call of delete_file_from_index removes at most one Source row: *)
(* of several Sources with the given file name it takes one match of its   *)
(* query, removes that row together with exactly the Index rows whose      *)
(* source_id is its id, and leaves the other Sources, their Index rows and *)
(* their store records as they are.  Stated on every step of a call: what  *)
(* the step removes belongs to the one Source the call has taken.          *)
(***************************************************************************)
StepOf(p) == dpc'[p] # dpc[p]

Taken(p) == IF dsess[p].source = NONE THEN {} ELSE {dsess[p].source[1]}

FootprintOf(S) == {r \in rels0 : r.source_id \in {s.id : s \in S}}

C26_AtMostOneSource ==
    [][\A p \in Procs :
         StepOf(p) =>
           /\ sources' # sources => (sources \ sources') \subseteq Taken(p)
           /\ relations' # relations =>
                 (relations \ relations') \subseteq FootprintOf(Taken(p))
           /\ vs' # vs =>
                 (vs \ vs') \subseteq TargetsOf(FootprintOf(Taken(p)), "vector")
           /\ ds' # ds =>
                 (ds \ ds') \subseteq TargetsOf(FootprintOf(Taken(p)), "document")
           /\ dpc'[p] = "found" =>
                 /\ dsess'[p].source # NONE
                 /\ dsess'[p].source[1] \in sources
                 /\ dsess'[p].source[1].name = dargs[p].name
           /\ dpc'[p] = "committed" =>
                 /\ sources' = sources \ Taken(p)
                 /\ relations' = relations \ FootprintOf(Taken(p))]_vars

\* Of two Sources named a.pdf of user u1, a call has deleted Source 1 and
\* returned; Source 2 is in the catalog with all its Index rows, and its
\* records are in both stores.
C26_Witness ==
    \E p \in Procs :
      /\ dpc[p] = "returned" /\ dres[p].success
      /\ dres[p].file_id = Some(1)
      /\ sources = {Source(2, "a.pdf", "u1")}
      /\ relations = RelationsOf(2, MaxChunks, MaxChunks)
      /\ vs = TargetsOf(relations, "vector") /\ vs # {}
      /\ ds = TargetsOf(relations, "document") /\ ds # {}

(***************************************************************************)
(* C27: every result index_single_file returns has success true exactly    *)
(* when its status is indexed or skipped, a file_id exactly when its       *)
(* status is indexed, and the status skipped only in a call with           *)
(* reindex = false.                                                        *)
(***************************************************************************)
C27_ResultShape ==
    \A p \in Procs :
      apc[p] = "returned" =>
        /\ ares[p].success <=> ares[p].status \in {"indexed", "skipped"}
        /\ ares[p].file_id # NONE <=> ares[p].status = "indexed"
        /\ ares[p].status = "skipped" => ~aargs[p].reindex
        /\ ares[p].status \in {"indexed", "skipped", "failed", "error"}

\* One call without reindex has returned skipped, and one call with reindex
\* has returned an error.
C27_Witness ==
    \E p, q \in Procs :
      /\ apc[p] = "returned" /\ ares[p].status = "skipped" /\ ~aargs[p].reindex
      /\ apc[q] = "returned" /\ ares[q].status = "error" /\ aargs[q].reindex

(***************************************************************************)
(* C28: whenever run issues its catalog query, the flattened scope it      *)
(* queries with holds only ids, no None: a null never reaches the Index    *)
(* query (or the file_id filter built from the same list), also when it    *)
(* comes inside a JSON-encoded list element such as "[null]".              *)
(***************************************************************************)
HasNone(ids) == \E k \in 1..Len(ids) : ids[k].isNone

C28_NoNullInQuery ==
    /\ \A k \in 1..Len(rqueries) : ~HasNone(rqueries[k])
    /\ rpc \in {"scoped", "queried"} => ~HasNone(rscope)

(***************************************************************************)
(* C24: delete_records_by_ids with confirm = True deletes no row unless    *)
(* the records found were listed first and the operator then answered yes  *)
(* or y.  On any other answer, on an empty id list, when no record matches *)
(* and when a supplied id is not an integer the table is left unchanged.   *)
(* On confirmation exactly the existing rows whose id is among the         *)
(* requested ids are deleted, and every other row is unchanged.            *)
(***************************************************************************)
\* The texts that are integers, and the integer each of them is.
IntegerOf(text) ==
    CASE text = <<"1">> -> {1}
      [] text = <<"0", "1">> -> {1}
      [] text = <<"2">> -> {2}
      [] text = <<" ", "2">> -> {2}
      [] text = <<"1", "2">> -> {12}
      [] text = <<"-", "1">> -> {0 - 1}
      [] OTHER -> {}

RequestedIds == UNION {IntegerOf(margs.ids[k]) : k \in 1..Len(margs.ids)}

AnsweredYes ==
    /\ mresponse # NONE
    /\ mresponse[1] \in {<<"y", "e", "s">>, <<"Y", "E", "S">>, <<"Y", "e", "s">>,
                         <<"y">>, <<"Y">>}

NothingToDelete ==
    \/ margs.ids = <<>>
    \/ \E k \in 1..Len(margs.ids) : IntegerOf(margs.ids[k]) = {}
    \/ \A record \in mtable0 : record.id \notin RequestedIds
    \/ margs.confirm /\ ~AnsweredYes

C24_ConfirmedDelete ==
    /\ mtable # mtable0 =>
          /\ mlisted # {}
          /\ mtable0 \ mtable = mlisted
          /\ margs.confirm => AnsweredYes
    /\ (mpc # "idle" /\ NothingToDelete) => mtable = mtable0
    /\ (mpc = "returned" /\ mout = "Successfully deleted") =>
          mtable = {record \in mtable0 : record.id \notin RequestedIds}
    /\ mtable \subseteq mtable0

\* A call with confirm = True for the ids 12 and 01 on a table of three rows
\* has deleted rows 12 and 1 after the answer YES; row 2 is left.
C24_Witness ==
    /\ mpc = "returned"
    /\ mout = "Successfully deleted"
    /\ margs.confirm
    /\ mresponse = Some(<<"Y", "E", "S">>)
    /\ mtable0 = {Row(1), Row(2), Row(12)}
    /\ mtable = {Row(2)}
    /\ mlisted = {Row(1), Row(12)}

=============================================================================
